---- MODULE Spec2Model ----
(***************************************************************************)
(* Model of seabirds_analysis.py: a Streamlit script that is executed from *)
(* top to bottom when the page is opened and again after every widget      *)
(* change.  A step of the model is one user event followed by the whole    *)
(* script run it triggers.                                                 *)
(*                                                                         *)
(* Dates.  A date written in the file, and a datetime.date handed back by  *)
(* the date picker, is a triple <<year, month, day>>.  pd.to_datetime      *)
(* turns it into a Timestamp, modelled as the integer yyyymmdd, which      *)
(* orders as the calendar does.  The Date column of the file holds         *)
(* calendar dates (no time of day).                                        *)
(***************************************************************************)
EXTENDS Integers, Sequences, FiniteSets, TLC

\* ------------------------------------------------------------------ bounds
\* the largest number of sighting records in the file
MaxRows == 2

\* The dates a file of the model may hold and the picker may offer.  They
\* differ in the day only, in the month, and in the year.
Calendar == {<<2020, 1, 1>>, <<2020, 1, 2>>, <<2020, 2, 1>>, <<2021, 1, 1>>}
BadDate == <<"n/a">>

RequiredColumns == {"Common Name", "Date", "Flying", "Sitting"}

VARIABLES
    file,               \* data/seabird_atlas.csv as it is on disk
    cache,              \* st.cache_data entry of load_data: <<>> or <<table>>
    file_reads,         \* number of times pd.read_csv returned a table
    session,            \* st.session_state: a function from the keys present
    df,                 \* the run's table after lines 68-74
    df_filtered,        \* the run's filtered view, with its Period column
    species_totals_all, \* the run's unfiltered species totals
    time_series,        \* the run's filtered time series
    behavior,           \* the run's filtered behavior totals
    rendered,           \* page elements emitted by the last run
    status,             \* how the last run ended
    event               \* what triggered the last run

vars == <<file, cache, file_reads, session, df, df_filtered, species_totals_all,
          time_series, behavior, rendered, status, event>>

\* ------------------------------------------------------------- sequences
RECURSIVE SumSeq(_)
SumSeq(s) == IF s = <<>> THEN 0 ELSE Head(s) + SumSeq(Tail(s))

Range(s) == {s[i] : i \in 1..Len(s)}

Column(rows, c) == [i \in 1..Len(rows) |-> rows[i][c]]

\* Series.unique(): the distinct values in order of first appearance
RECURSIVE Unique(_)
Unique(s) ==
    IF s = <<>> THEN <<>>
    ELSE LET u == Unique(SubSeq(s, 1, Len(s) - 1))
             x == s[Len(s)]
         IN IF x \in Range(u) THEN u ELSE Append(u, x)

SetMin(S) == CHOOSE x \in S : \A y \in S : x <= y
SetMax(S) == CHOOSE x \in S : \A y \in S : x >= y

\* ----------------------------------------------------------------- dates
\* pd.to_datetime of a date string or of a datetime.date
to_datetime(d) == d[1] * 10000 + d[2] * 100 + d[3]

\* Timestamp.date(), Series.dt.date
dt_date(ts) == <<ts \div 10000, (ts \div 100) % 100, ts % 100>>

\* a month label that drops the year
to_period_M_month_only(ts) == <<(ts \div 100) % 100>>

\* Series.dt.to_period("M").astype(str): "YYYY-MM"
to_period_M(ts) == <<ts \div 10000, (ts \div 100) % 100>>

\* Series.dt.to_period("Y").astype(str): "YYYY"
to_period_Y(ts) == <<ts \div 10000>>

\* pd.to_datetime raises on a value that is no date
Parseable(d) == Len(d) = 3

\* ------------------------------------------------------------- the file
Sighting(n, d, f, s) == [CommonName |-> n, Date |-> d, Flying |-> f, Sitting |-> s]

\* The lines a file of the model is made of: two species over the dates of
\* the calendar, with counts that are zero, equal and different.  A file
\* may hold a line more than once.
RawRows ==
    {Sighting("Gannet", <<2020, 1, 1>>, 2, 1),
     Sighting("Gannet", <<2020, 1, 2>>, 0, 1),
     Sighting("Gannet", <<2021, 1, 1>>, 1, 2),
     Sighting("Penguin", <<2020, 1, 1>>, 0, 0),
     Sighting("Penguin", <<2020, 2, 1>>, 0, 3),
     Sighting("Penguin", <<2021, 1, 1>>, 1, 1)}

Datasets == UNION {[1..n -> RawRows] : n \in 1..MaxRows}

SampleRow == Sighting("Gannet", <<2020, 1, 1>>, 2, 1)

GoodFile(rows) ==
    [exists |-> TRUE, delimiter |-> ";", columns |-> RequiredColumns, rows |-> rows]

\* the files that end a run in an error before the filters are reached
BrokenFiles ==
    {[GoodFile(<<SampleRow>>) EXCEPT !.exists = FALSE],
     [GoodFile(<<SampleRow>>) EXCEPT !.delimiter = ","],
     [GoodFile(<<SampleRow>>) EXCEPT !.rows = <<[SampleRow EXCEPT !.Date = BadDate]>>],
     GoodFile(<<>>)}
    \cup {[GoodFile(<<SampleRow>>) EXCEPT !.columns = RequiredColumns \ {c}] :
              c \in RequiredColumns}

Files == {GoodFile(rows) : rows \in Datasets} \cup BrokenFiles

\* pd.read_csv(file_path, delimiter=";"): with another delimiter every line
\* is read as one column named by the whole header line
read_csv(f) ==
    IF f.delimiter = ";"
    THEN [columns |-> f.columns, rows |-> f.rows]
    ELSE [columns |-> {"Common Name,Date,Flying,Sitting"}, rows |-> f.rows]

\* load_data without @st.cache_data: every run reads the file
load_data_uncached(ch) ==
    IF ~file.exists
    THEN [raised |-> TRUE, table |-> read_csv(file), cache |-> <<>>, reads |-> 0]
    ELSE [raised |-> FALSE, table |-> read_csv(file), cache |-> <<>>, reads |-> 1]

\* @st.cache_data load_data(): a hit returns a copy of the cached table, a
\* miss runs the body and stores its result; an exception stores nothing
load_data(ch) ==
    IF ch # <<>>
    THEN [raised |-> FALSE, table |-> ch[1], cache |-> ch, reads |-> 0]
    ELSE IF ~file.exists
         THEN [raised |-> TRUE, table |-> read_csv(file), cache |-> <<>>, reads |-> 0]
         ELSE [raised |-> FALSE, table |-> read_csv(file),
               cache |-> <<read_csv(file)>>, reads |-> 1]

\* ------------------------------------------------- lines 70-74: the table
\* df["Date"] = pd.to_datetime(df["Date"])
ParseDate(row) == [row EXCEPT !.Date = to_datetime(row.Date)]

\* a total that leaves the sitting birds out
TotalCount_flying_only(row) == row.Flying

\* df["Total Count"] = df["Flying"] + df["Sitting"]
TotalCount(row) == row.Flying + row.Sitting

AddTotalCount(row) ==
    [CommonName |-> row.CommonName, Date |-> row.Date, Flying |-> row.Flying,
     Sitting |-> row.Sitting, TotalCount |-> TotalCount(row)]

PrepareTable(rows) == [i \in 1..Len(rows) |-> AddTotalCount(ParseDate(rows[i]))]

\* -------------------------------------------------------- session state
NoSession == <<>>

Has(ss, k) == k \in DOMAIN ss

Put(ss, k, v) == (k :> v) @@ ss

SetDefault(ss, k, v) == IF Has(ss, k) THEN ss ELSE Put(ss, k, v)

GroupByOptions == <<"Day", "Month", "Year">>

SpeciesOptions(t) == Unique(Column(t, "CommonName"))

MinDate(t) == SetMin(Range(Column(t, "Date")))
MaxDate(t) == SetMax(Range(Column(t, "Date")))

\* the defaults assigned on every run, without the "not in" tests
InitSessionState_overwrites(ss, t) ==
    LET s1 == Put(ss, "selected_species", {SpeciesOptions(t)[1]})
        s2 == SetDefault(s1, "start_date", MinDate(t))
        s3 == SetDefault(s2, "end_date", MaxDate(t))
    IN Put(s3, "group_by", "Month")

\* lines 76-84
InitSessionState(ss, t) ==
    LET s1 == SetDefault(ss, "selected_species", {SpeciesOptions(t)[1]})
        s2 == SetDefault(s1, "start_date", MinDate(t))
        s3 == SetDefault(s2, "end_date", MaxDate(t))
    IN SetDefault(s3, "group_by", "Month")

\* lines 98-104: the picker's value is the widget state kept under its key,
\* and the value argument when the widget has no state yet (a new session,
\* where lines 80 and 82 have just stored the two Timestamps); it returns
\* datetime.date objects
date_input(ss) ==
    IF Has(ss, "date_range") THEN ss.date_range
    ELSE <<dt_date(ss.start_date), dt_date(ss.end_date)>>

\* ------------------------------------------------- lines 107-112: filter
\* an end date that is excluded
InRange_exclusive_end(row, ss) ==
    /\ row.Date >= to_datetime(ss.start_date)
    /\ row.Date < to_datetime(ss.end_date)

InRange(row, ss) ==
    /\ row.Date >= to_datetime(ss.start_date)
    /\ row.Date <= to_datetime(ss.end_date)

\* an empty selection read as "all species"
Selected_all_when_empty(row, ss) ==
    ss.selected_species = {} \/ row.CommonName \in ss.selected_species

Selected(row, ss) == row.CommonName \in ss.selected_species

Mask(row, ss) == Selected(row, ss) /\ InRange(row, ss)

RECURSIVE Filter(_, _)
Filter(t, ss) ==
    IF t = <<>> THEN <<>>
    ELSE IF Mask(Head(t), ss) THEN <<Head(t)>> \o Filter(Tail(t), ss)
         ELSE Filter(Tail(t), ss)

\* ---------------------------------------------------------- aggregation
\* the rows of t whose columns keys have the values of row r
RECURSIVE Group(_, _, _)
Group(t, keys, r) ==
    IF t = <<>> THEN <<>>
    ELSE IF \A k \in keys : Head(t)[k] = r[k]
         THEN <<Head(t)>> \o Group(Tail(t), keys, r)
         ELSE Group(Tail(t), keys, r)

\* line 115: df.groupby("Common Name")[["Total Count"]].sum().reset_index()
SpeciesTotals(t) ==
    {[CommonName |-> r.CommonName,
      TotalCount |-> SumSeq(Column(Group(t, {"CommonName"}, r), "TotalCount"))] :
        r \in Range(t)}

\* lines 180-185
PeriodLabel(ts, g) ==
    IF g = "Day" THEN dt_date(ts)
    ELSE IF g = "Month" THEN to_period_M(ts)
    ELSE to_period_Y(ts)

AddPeriod(t, g) ==
    [i \in 1..Len(t) |->
        [CommonName |-> t[i].CommonName, Date |-> t[i].Date, Flying |-> t[i].Flying,
         Sitting |-> t[i].Sitting, TotalCount |-> t[i].TotalCount,
         Period |-> PeriodLabel(t[i].Date, g)]]

\* lines 188-190: groupby(["Period", "Common Name"])[["Total Count"]].sum()
TimeSeries(t) ==
    {[Period |-> r.Period, CommonName |-> r.CommonName,
      TotalCount |->
          SumSeq(Column(Group(t, {"Period", "CommonName"}, r), "TotalCount"))] :
        r \in Range(t)}

\* line 217: groupby("Common Name")[["Flying", "Sitting"]].sum()
Behavior(t) ==
    {[CommonName |-> r.CommonName,
      Flying |-> SumSeq(Column(Group(t, {"CommonName"}, r), "Flying")),
      Sitting |-> SumSeq(Column(Group(t, {"CommonName"}, r), "Sitting"))] :
        r \in Range(t)}

\* ------------------------------------------------------- the script run
\* elements emitted by lines 10-57, before the data is loaded
BeforeLoad == {"page_style", "sidebar_title", "sidebar_image"}

\* lines 87-104
FilterWidgets == {"filter_header", "species_widget", "date_widget"}

\* lines 118-245
AfterFilters ==
    {"species_totals_chart", "filtered_table", "map", "group_by_widget",
     "time_series_chart", "behavior_chart", "data_source"}

\* an error that is swallowed: the sidebar widgets are drawn all the same
Halt_renders_on(st, shown, ss, ld, t) ==
    [status |-> st, rendered |-> shown \cup FilterWidgets, session |-> ss,
     cache |-> ld.cache, reads |-> ld.reads, df |-> t, df_filtered |-> <<>>,
     species_totals_all |-> {}, time_series |-> {}, behavior |-> {}]

\* an uncaught exception ends the run: what was emitted stays on the page,
\* session state keeps the assignments made so far and the state of the
\* keyed widgets, also of those the run did not reach
Halt(st, shown, ss, ld, t) ==
    [status |-> st, rendered |-> shown, session |-> ss, cache |-> ld.cache,
     reads |-> ld.reads, df |-> t, df_filtered |-> <<>>,
     species_totals_all |-> {}, time_series |-> {}, behavior |-> {}]

\* species totals taken from the filtered view
Render_totals_of_filtered(ss, ld, t) ==
    LET filtered == AddPeriod(Filter(t, ss), ss.group_by)
    IN [status |-> "ok",
        rendered |-> BeforeLoad \cup FilterWidgets \cup AfterFilters,
        session |-> ss, cache |-> ld.cache, reads |-> ld.reads, df |-> t,
        df_filtered |-> filtered,
        species_totals_all |-> SpeciesTotals(filtered),
        time_series |-> TimeSeries(filtered),
        behavior |-> Behavior(filtered)]

\* lines 105-245, reached when the picker returned two dates
Render(ss, ld, t) ==
    LET filtered == AddPeriod(Filter(t, ss), ss.group_by)
    IN [status |-> "ok",
        rendered |-> BeforeLoad \cup FilterWidgets \cup AfterFilters,
        session |-> ss, cache |-> ld.cache, reads |-> ld.reads, df |-> t,
        df_filtered |-> filtered,
        species_totals_all |-> SpeciesTotals(t),
        time_series |-> TimeSeries(filtered),
        behavior |-> Behavior(filtered)]

\* lines 86-105: the two sidebar widgets and the unpacking of the range
Filters(ss, ld, t) ==
    LET picked == date_input(ss)
        s1 == Put(ss, "date_range", picked)
    IN IF Len(picked) # 2
       THEN Halt("date_unpack_error", BeforeLoad \cup FilterWidgets, s1, ld, t)
       ELSE Render(Put(Put(s1, "start_date", picked[1]), "end_date", picked[2]),
                   ld, t)

\* the whole script, run with session state ss and cache entry ch
Script(ss, ch) ==
    LET ld == load_data(ch)
        tbl == ld.table
    IN IF ld.raised
       THEN Halt("load_error", BeforeLoad, ss, ld, <<>>)
       ELSE IF "Date" \notin tbl.columns
                 \/ \E i \in 1..Len(tbl.rows) : ~Parseable(tbl.rows[i].Date)
       THEN Halt("load_error", BeforeLoad, ss, ld, <<>>)
       ELSE IF ~({"Flying", "Sitting"} \subseteq tbl.columns)
       THEN Halt("load_error", BeforeLoad, ss, ld, <<>>)
       ELSE IF "Common Name" \notin tbl.columns
       THEN Halt("load_error", BeforeLoad, ss, ld, <<>>)
       ELSE IF tbl.rows = <<>> /\ ~Has(ss, "selected_species")
       THEN Halt("no_rows_error", BeforeLoad, ss, ld, <<>>)
       ELSE Filters(InitSessionState(ss, PrepareTable(tbl.rows)), ld,
                    PrepareTable(tbl.rows))

Apply(out, ev) ==
    /\ session' = out.session
    /\ cache' = out.cache
    /\ file_reads' = file_reads + out.reads
    /\ df' = out.df
    /\ df_filtered' = out.df_filtered
    /\ species_totals_all' = out.species_totals_all
    /\ time_series' = out.time_series
    /\ behavior' = out.behavior
    /\ rendered' = out.rendered
    /\ status' = out.status
    /\ event' = ev
    /\ UNCHANGED file

\* ---------------------------------------------------------------- events
\* the dates the picker offers: min_value <= d <= max_value
Pickable ==
    {d \in Calendar : to_datetime(d) >= MinDate(df) /\ to_datetime(d) <= MaxDate(df)}

\* the page is opened (or reloaded) in a browser, whatever it shows: a new
\* session and its first run; the process and its cache stay
OpenPage ==
    /\ rendered \subseteq BeforeLoad \cup FilterWidgets \cup AfterFilters
    /\ Apply(Script(NoSession, cache), "open")

\* the user changes the species multiselect
ChangeSpecies ==
    /\ "species_widget" \in rendered
    /\ \E S \in SUBSET Range(SpeciesOptions(df)) :
          /\ S # session.selected_species
          /\ Apply(Script(Put(session, "selected_species", S), cache), "species")

\* the user clicks a first date in the range picker: the picker commits its
\* value after every click, and st.date_input returns a tuple of one date
\* until the second date is chosen
PickStartDate ==
    /\ "date_widget" \in rendered
    /\ Len(session.date_range) = 2
    /\ \E a \in Pickable :
          Apply(Script(Put(session, "date_range", <<a>>), cache), "date")

\* the user clicks the second date of the range
PickEndDate ==
    /\ "date_widget" \in rendered
    /\ Len(session.date_range) = 1
    /\ \E b \in Pickable :
          /\ to_datetime(b) >= to_datetime(session.date_range[1])
          /\ Apply(Script(Put(session, "date_range", <<session.date_range[1], b>>),
                          cache), "date")

\* a selectbox change that also puts the picker back to the full range
ChangeGroupBy_resets_dates ==
    /\ "group_by_widget" \in rendered
    /\ \E g \in Range(GroupByOptions) :
          /\ g # session.group_by
          /\ Apply(Script(Put(Put(session, "group_by", g), "date_range",
                              <<dt_date(MinDate(df)), dt_date(MaxDate(df))>>),
                          cache), "group_by")

\* the user changes the "Group By" selectbox
ChangeGroupBy ==
    /\ "group_by_widget" \in rendered
    /\ \E g \in Range(GroupByOptions) :
          /\ g # session.group_by
          /\ Apply(Script(Put(session, "group_by", g), cache), "group_by")

Init ==
    /\ file \in Files
    /\ cache = <<>>
    /\ file_reads = 0
    /\ session = NoSession
    /\ df = <<>>
    /\ df_filtered = <<>>
    /\ species_totals_all = {}
    /\ time_series = {}
    /\ behavior = {}
    /\ rendered = {}
    /\ status = "not_run"
    /\ event = "none"

Next == OpenPage \/ ChangeSpecies \/ PickStartDate \/ PickEndDate \/ ChangeGroupBy

Spec == Init /\ [][Next]_vars

\* ------------------------------------------------------------ properties
Occurrences(s, r) == Cardinality({i \in DOMAIN s : s[i] = r})

WithoutPeriod(r) ==
    [CommonName |-> r.CommonName, Date |-> r.Date, Flying |-> r.Flying,
     Sitting |-> r.Sitting, TotalCount |-> r.TotalCount]

\* the records of the filtered view, without the Period column of line 181
View == [i \in DOMAIN df_filtered |-> WithoutPeriod(df_filtered[i])]

RECURSIVE SumAt(_, _, _)
SumAt(s, c, I) ==
    IF I = {} THEN 0
    ELSE LET i == CHOOSE j \in I : TRUE IN s[i][c] + SumAt(s, c, I \ {i})

RECURSIVE SumTotals(_)
SumTotals(R) ==
    IF R = {} THEN 0
    ELSE LET r == CHOOSE x \in R : TRUE IN r.TotalCount + SumTotals(R \ {r})

\* calendar order of two dates <<year, month, day>>
DateLeq(a, b) ==
    \/ a[1] < b[1]
    \/ a[1] = b[1] /\ a[2] < b[2]
    \/ a[1] = b[1] /\ a[2] = b[2] /\ a[3] <= b[3]

FileDates == Range(Column(file.rows, "Date"))
FileNames == Range(Column(file.rows, "CommonName"))
FirstDate == CHOOSE d \in FileDates : \A e \in FileDates : DateLeq(d, e)
LastDate == CHOOSE d \in FileDates : \A e \in FileDates : DateLeq(e, d)

\* C1: in a run that reaches the filter, the filtered view holds exactly the
\* records of the loaded table whose species is selected and whose date d
\* has start <= d <= end, each as often as the table holds it; a record
\* dated on the end date is in the view, and the view is part of the table.
C1_FilteredViewIsTheSelection ==
    status = "ok" =>
        LET Wanted(r) ==
                /\ r.CommonName \in session.selected_species
                /\ DateLeq(session.start_date, dt_date(r.Date))
                /\ DateLeq(dt_date(r.Date), session.end_date)
        IN \A r \in Range(df) \cup Range(View) :
               Occurrences(View, r) = IF Wanted(r) THEN Occurrences(df, r) ELSE 0

\* a view that keeps a record dated on an end date before the last date of
\* the file, and drops another record
C1_Witness ==
    /\ status = "ok"
    /\ session.end_date # LastDate
    /\ \E i \in DOMAIN df_filtered : dt_date(df_filtered[i].Date) = session.end_date
    /\ Len(df_filtered) < Len(df)

\* C2: with no species selected, whatever the date range held by the picker
\* and the granularity, the run completes, the filtered view is empty, the
\* time series and the behavior totals have no row, and the two charts are
\* drawn.
C2_EmptySelectionGivesEmptyView ==
    (/\ Has(session, "selected_species")
     /\ session.selected_species = {}
     /\ Has(session, "date_range")
     /\ Len(session.date_range) = 2) =>
        /\ status = "ok"
        /\ df_filtered = <<>>
        /\ time_series = {}
        /\ behavior = {}
        /\ {"time_series_chart", "behavior_chart"} \subseteq rendered

C2_Witness ==
    /\ status = "ok"
    /\ session.selected_species = {}
    /\ session.group_by = "Day"
    /\ Len(df) = MaxRows

\* C3: whatever the filter state a completed run is in, its unfiltered
\* species totals are, for every species of the file, the sum of flying plus
\* sitting over all the records of the file.
C3_SpeciesTotalsIgnoreFilters ==
    status = "ok" =>
        species_totals_all =
            {[CommonName |-> n,
              TotalCount |->
                 LET I == {i \in DOMAIN file.rows : file.rows[i].CommonName = n}
                 IN SumAt(file.rows, "Flying", I) + SumAt(file.rows, "Sitting", I)] :
                n \in FileNames}

\* after a filter change that removed records from the view
C3_Witness ==
    /\ status = "ok"
    /\ event \in {"species", "date"}
    /\ Len(df_filtered) < Len(df)
    /\ \E r \in species_totals_all : r.CommonName \notin session.selected_species

\* C4: for every species of the filtered view, flying sum plus sitting sum
\* of its behavior row equals the sum of its time-series rows, whatever the
\* granularity.
C4_BehaviorMatchesTimeSeries ==
    status = "ok" =>
        \A n \in Range(Column(df_filtered, "CommonName")) :
            /\ \E b \in behavior : b.CommonName = n
            /\ \A b \in behavior :
                   b.CommonName = n =>
                       b.Flying + b.Sitting =
                           SumTotals({r \in time_series : r.CommonName = n})

\* a species with flying and sitting birds spread over two periods
C4_Witness ==
    /\ status = "ok"
    /\ \E b \in behavior :
          /\ b.Flying > 0
          /\ b.Sitting > 0
          /\ Cardinality({r \in time_series : r.CommonName = b.CommonName}) >= 2

\* C5: once the filters of a session have been reached, the selected species
\* are species of the file, the date range is a pair (start, end) with
\* file min <= start <= end <= file max, the granularity is Day, Month or
\* Year, and no run has to cope with a range of one date.
C5_FilterStateWellFormed ==
    Has(session, "date_range") =>
        /\ session.selected_species \subseteq FileNames
        /\ session.group_by \in {"Day", "Month", "Year"}
        /\ DateLeq(FirstDate, session.start_date)
        /\ DateLeq(session.start_date, session.end_date)
        /\ DateLeq(session.end_date, LastDate)
        /\ Len(session.date_range) = 2
        /\ status = "ok"

\* C6: a run triggered by the "Group By" selectbox leaves the selected
\* species, the start date, the end date, the records of the filtered view
\* and the behavior totals as they were.
C6_GroupByLeavesFilters ==
    [][event' = "group_by" =>
          /\ session'.selected_species = session.selected_species
          /\ session'.start_date = session.start_date
          /\ session'.end_date = session.end_date
          /\ View' = View
          /\ behavior' = behavior
          /\ session'.group_by # session.group_by]_vars

\* a granularity change over a view narrowed by both filters
C6_Witness ==
    /\ event = "group_by"
    /\ status = "ok"
    /\ session.group_by = "Year"
    /\ Len(df_filtered) >= 1
    /\ Len(df_filtered) < Len(df)
    /\ session.end_date # LastDate

\* C7: the first run of a session sets species = {first species of the
\* file}, date range = [file min, file max], granularity = Month; a later
\* run leaves every selection whose control the user did not change as the
\* run before left it, and a changed multiselect or selectbox holds the new
\* choice.
C7_DefaultsThenPreserved ==
    [][/\ (event' = "open" /\ status' = "ok") =>
              /\ session'.selected_species = {file.rows[1].CommonName}
              /\ session'.start_date = FirstDate
              /\ session'.end_date = LastDate
              /\ session'.group_by = "Month"
       /\ (event' # "open") =>
              /\ (event' # "species") =>
                     session'.selected_species = session.selected_species
              /\ (event' # "date") =>
                     /\ session'.start_date = session.start_date
                     /\ session'.end_date = session.end_date
              /\ (event' # "group_by") =>
                     session'.group_by = session.group_by
              /\ (event' = "species") =>
                     session'.selected_species # session.selected_species
              /\ (event' = "group_by") =>
                     session'.group_by # session.group_by]_vars

\* a later run in which none of the three selections is its default
C7_Witness ==
    /\ status = "ok"
    /\ event = "species"
    /\ session.selected_species # {file.rows[1].CommonName}
    /\ session.group_by = "Day"
    /\ session.start_date # FirstDate

\* C8: the time series has one row for each (period label, species) pair
\* of the filtered view and no other row; the label is the date for Day,
\* year and month for Month, the year for Year; the row's value is the sum
\* of total count over the view's records of that pair.
C8_TimeSeriesRows ==
    status = "ok" =>
        LET Label(r) ==
                LET d == dt_date(r.Date)
                IN IF session.group_by = "Day" THEN d
                   ELSE IF session.group_by = "Month" THEN <<d[1], d[2]>>
                   ELSE <<d[1]>>
            Pairs == {<<Label(View[i]), View[i].CommonName>> : i \in DOMAIN View}
            RowsOf(pr) ==
                {r \in time_series : r.Period = pr[1] /\ r.CommonName = pr[2]}
        IN /\ \A r \in time_series : <<r.Period, r.CommonName>> \in Pairs
           /\ \A pr \in Pairs :
                  /\ Cardinality(RowsOf(pr)) = 1
                  /\ \A r \in RowsOf(pr) :
                         r.TotalCount =
                             SumAt(View, "TotalCount",
                                   {i \in DOMAIN View :
                                        /\ Label(View[i]) = pr[1]
                                        /\ View[i].CommonName = pr[2]})

\* a monthly row that sums two records of different days of one month
C8_Witness ==
    /\ status = "ok"
    /\ session.group_by = "Month"
    /\ Len(df_filtered) = 2
    /\ df_filtered[1].Date # df_filtered[2].Date
    /\ Cardinality(time_series) = 1

\* C9 as stated: a run that ends in a load error has emitted no page
\* element at all.
C9_NoOutputOnLoadError ==
    status = "load_error" =>
        rendered \cap ({"sidebar_title", "sidebar_image"} \cup FilterWidgets
                       \cup AfterFilters) = {}

\* C9 as amended: a run that ends in a load error has emitted the sidebar
\* title and the sidebar image and nothing that follows the load.
C9_OnlySidebarHeadOnLoadError ==
    status = "load_error" =>
        /\ rendered \cap (FilterWidgets \cup AfterFilters) = {}
        /\ {"sidebar_title", "sidebar_image"} \subseteq rendered

\* a file that exists and holds a date that cannot be parsed
C9_Witness ==
    /\ status = "load_error"
    /\ file.exists
    /\ \E i \in DOMAIN file.rows : file.rows[i].Date = BadDate

\* C10: the file is read at most once; the cache entry stays the table that
\* was read; the table of every run is that of the file, record by record,
\* with total count = flying + sitting.
C10_ReadOnceAndCacheIntact ==
    /\ file_reads <= 1
    /\ cache # <<>> => cache[1].rows = file.rows /\ file_reads = 1
    /\ status \in {"ok", "date_unpack_error"} =>
           /\ Len(df) = Len(file.rows)
           /\ \A i \in DOMAIN df :
                  /\ df[i].CommonName = file.rows[i].CommonName
                  /\ dt_date(df[i].Date) = file.rows[i].Date
                  /\ df[i].Flying = file.rows[i].Flying
                  /\ df[i].Sitting = file.rows[i].Sitting
                  /\ df[i].TotalCount = df[i].Flying + df[i].Sitting

\* a re-run after a filter change, served from the cache
C10_Witness ==
    /\ status = "ok"
    /\ event = "date"
    /\ file_reads = 1
    /\ Len(df) = MaxRows

====
